---- MODULE Spec2Model ----
(***************************************************************************)
(* Stage 1 of simdjson (structural index discovery,                        *)
(* src/generic/stage1_find_marks.h) and the JsonStream driver              *)
(* (include/simdjson/jsonstream.h).                                        *)
(*                                                                         *)
(* A 64-bit mask (uint64_t) is the set of its set bit positions, a subset  *)
(* of 0 .. 63: bit i of a lane's mask speaks of byte i of the lane.  The   *)
(* operators take the lane width W as a parameter; the program always uses *)
(* W = LaneBits = 64.  A width equal to the whole padded input gives the   *)
(* scan of the input as one single chunk.                                  *)
(***************************************************************************)
EXTENDS Integers, Sequences, FiniteSets, TLC

(***************************************************************************)
(* Program constants.                                                      *)
(***************************************************************************)
\* width of a bitmask lane: uint64_t, idx += 64
LaneBits == 64
\* bytes handed to one kernel call (a multiple of LaneBits)
SIMD_WIDTH == 64
\* in64.eq('\\')
Backslash == 92
\* in64.eq('"')
Quote == 34
\* in64.lteq(0x1F)
MaxControl == 31
\* memset(tmp_buf, 0x20, SIMD_WIDTH)
Space == 32

Whitespace == {32, 9, 10, 13}
StructuralChars == {123, 125, 91, 93, 44, 58}
\* bytes that no UTF-8 text contains
Utf8Never == {192, 193} \cup (245 .. 255)

(***************************************************************************)
(* 64-bit arithmetic on masks.                                             *)
(***************************************************************************)
Bits(W) == 0 .. (W - 1)
AllOnes(W) == Bits(W)
Not(x, W) == Bits(W) \ x
Xor(x, y) == (x \ y) \cup (y \ x)
Shl1(x, W) == {i \in 1 .. (W - 1) : (i - 1) \in x}
BoolBit(b) == IF b THEN {0} ELSE {}
Bit(x, i) == IF i \in x THEN 1 ELSE 0

\* the carry into bit i of a + b: some lower bit generates a carry (both set)
\* and every bit between propagates it (one set)
CarryInto(a, b, i) ==
  \E j \in (a \cap b) :
    /\ j < i
    /\ \A m \in (j + 1) .. (i - 1) : m \in (a \cup b)

\* add_overflow(a, b, &sum): the sum modulo 2^W and the carry out of bit W-1
add_overflow(a, b, W) ==
  [sum |-> {i \in Bits(W) : (Bit(a, i) + Bit(b, i)
                              + (IF CarryInto(a, b, i) THEN 1 ELSE 0)) % 2 = 1},
   overflow |-> CarryInto(a, b, W)]

\* bit i = XOR over j <= i of quote_bits[j] (carry-less multiply by all ones)
compute_quote_mask(quote_bits, W) ==
  {i \in Bits(W) : Cardinality({j \in quote_bits : j <= i}) % 2 = 1}

\* simd_input64: the W bytes of `src` (a sequence) that start at offset `off`
simd_input64(src, off, W) == [i \in Bits(W) |-> src[off + i + 1]]
eq(in, c, W) == {i \in Bits(W) : in[i] = c}
lteq(in, c, W) == {i \in Bits(W) : in[i] <= c}

find_whitespace_and_structurals(in, W) ==
  [whitespace  |-> {i \in Bits(W) : in[i] \in Whitespace},
   structurals |-> {i \in Bits(W) : in[i] \in StructuralChars}]

(***************************************************************************)
(* A variant of find_odd_backslash_sequences that forgets the carry: the   *)
(* run that ended the lane before is not continued.                        *)
(***************************************************************************)
find_odd_backslash_sequences_no_carry(bs_bits, prev_iter_ends_odd_backslash, W) ==
  LET evens == {i \in Bits(W) : i % 2 = 0}
      odd_bits == Not(evens, W)
      start_edges == bs_bits \cap Not(Shl1(bs_bits, W), W)
      even_starts == start_edges \cap evens
      odd_starts == start_edges \cap odd_bits
      even_carries == add_overflow(bs_bits, even_starts, W).sum
      odd_add == add_overflow(bs_bits, odd_starts, W)
      even_carry_ends == even_carries \cap Not(bs_bits, W)
      odd_carry_ends == odd_add.sum \cap Not(bs_bits, W)
  IN  [odd_ends |-> (even_carry_ends \cap odd_bits) \cup (odd_carry_ends \cap evens),
       prev_iter_ends_odd_backslash |-> odd_add.overflow]

(***************************************************************************)
(* find_odd_backslash_sequences                                            *)
(***************************************************************************)
even_bits(W) == {i \in Bits(W) : i % 2 = 0}

find_odd_backslash_sequences(bs_bits, prev_iter_ends_odd_backslash, W) ==
  LET odd_bits == Not(even_bits(W), W)
      start_edges == bs_bits \cap Not(Shl1(bs_bits, W), W)
      even_start_mask == Xor(even_bits(W), BoolBit(prev_iter_ends_odd_backslash))
      even_starts == start_edges \cap even_start_mask
      odd_starts == start_edges \cap Not(even_start_mask, W)
      even_carries == add_overflow(bs_bits, even_starts, W).sum
      odd_add == add_overflow(bs_bits, odd_starts, W)
      iter_ends_odd_backslash == odd_add.overflow
      odd_carries == odd_add.sum \cup BoolBit(prev_iter_ends_odd_backslash)
      even_carry_ends == even_carries \cap Not(bs_bits, W)
      odd_carry_ends == odd_carries \cap Not(bs_bits, W)
      even_start_odd_end == even_carry_ends \cap odd_bits
      odd_start_even_end == odd_carry_ends \cap even_bits(W)
      odd_ends == even_start_odd_end \cup odd_start_even_end
  IN  [odd_ends |-> odd_ends,
       prev_iter_ends_odd_backslash |-> iter_ends_odd_backslash]

(***************************************************************************)
(* Variants of find_quote_mask_and_bits: one keeps the escaped quotes in   *)
(* the quote bits, one does not invert the mask when the lane before ended *)
(* inside a string.                                                        *)
(***************************************************************************)
find_quote_mask_and_bits_keep_escaped(unescaped, odd_ends, prev_iter_inside_quote, quote_bits_in, error_mask, W) ==
  LET quote_mask == Xor(compute_quote_mask(quote_bits_in, W), prev_iter_inside_quote)
  IN  [quote_mask |-> quote_mask,
       quote_bits |-> quote_bits_in,
       error_mask |-> error_mask \cup (quote_mask \cap unescaped),
       prev_iter_inside_quote |->
         IF (W - 1) \in quote_mask THEN AllOnes(W) ELSE {}]

find_quote_mask_and_bits_no_invert(unescaped, odd_ends, prev_iter_inside_quote, quote_bits_in, error_mask, W) ==
  LET quote_bits == quote_bits_in \cap Not(odd_ends, W)
      quote_mask == compute_quote_mask(quote_bits, W)
  IN  [quote_mask |-> quote_mask,
       quote_bits |-> quote_bits,
       error_mask |-> error_mask \cup (quote_mask \cap unescaped),
       prev_iter_inside_quote |->
         IF (W - 1) \in quote_mask THEN AllOnes(W) ELSE {}]

(***************************************************************************)
(* find_quote_mask_and_bits                                                *)
(***************************************************************************)
find_quote_mask_and_bits(unescaped, odd_ends, prev_iter_inside_quote, quote_bits_in, error_mask, W) ==
  LET quote_bits == quote_bits_in \cap Not(odd_ends, W)
      quote_mask == Xor(compute_quote_mask(quote_bits, W), prev_iter_inside_quote)
  IN  [quote_mask |-> quote_mask,
       quote_bits |-> quote_bits,
       error_mask |-> error_mask \cup (quote_mask \cap unescaped),
       prev_iter_inside_quote |->
         IF (W - 1) \in quote_mask THEN AllOnes(W) ELSE {}]

(***************************************************************************)
(* Variants of finalize_structurals: one does not count a quote as the     *)
(* predecessor of a pseudo-structural byte, one does not mask off what is  *)
(* inside quotes, one leaves the closing quotes switched on.               *)
(***************************************************************************)
finalize_structurals_no_quote_pred(structurals_in, whitespace, quote_mask, quote_bits, prev_iter_ends_pseudo_pred, W) ==
  LET s1 == structurals_in \cap Not(quote_mask, W)
      s2 == s1 \cup quote_bits
      pseudo_pred == s1 \cup whitespace
      shifted_pseudo_pred ==
        Shl1(pseudo_pred, W) \cup BoolBit(prev_iter_ends_pseudo_pred)
      pseudo_structurals ==
        (shifted_pseudo_pred \cap Not(whitespace, W)) \cap Not(quote_mask, W)
      s3 == s2 \cup pseudo_structurals
      s4 == s3 \cap Not(quote_bits \cap Not(quote_mask, W), W)
  IN  [structurals |-> s4,
       prev_iter_ends_pseudo_pred |-> ((W - 1) \in pseudo_pred)]

finalize_structurals_no_mask(structurals_in, whitespace, quote_mask, quote_bits, prev_iter_ends_pseudo_pred, W) ==
  LET s2 == structurals_in \cup quote_bits
      pseudo_pred == s2 \cup whitespace
      shifted_pseudo_pred ==
        Shl1(pseudo_pred, W) \cup BoolBit(prev_iter_ends_pseudo_pred)
      pseudo_structurals ==
        (shifted_pseudo_pred \cap Not(whitespace, W)) \cap Not(quote_mask, W)
      s3 == s2 \cup pseudo_structurals
      s4 == s3 \cap Not(quote_bits \cap Not(quote_mask, W), W)
  IN  [structurals |-> s4,
       prev_iter_ends_pseudo_pred |-> ((W - 1) \in pseudo_pred)]

finalize_structurals_keep_closing(structurals_in, whitespace, quote_mask, quote_bits, prev_iter_ends_pseudo_pred, W) ==
  LET s1 == structurals_in \cap Not(quote_mask, W)
      s2 == s1 \cup quote_bits
      pseudo_pred == s2 \cup whitespace
      shifted_pseudo_pred ==
        Shl1(pseudo_pred, W) \cup BoolBit(prev_iter_ends_pseudo_pred)
      pseudo_structurals ==
        (shifted_pseudo_pred \cap Not(whitespace, W)) \cap Not(quote_mask, W)
  IN  [structurals |-> s2 \cup pseudo_structurals,
       prev_iter_ends_pseudo_pred |-> ((W - 1) \in pseudo_pred)]

(***************************************************************************)
(* finalize_structurals                                                    *)
(***************************************************************************)
finalize_structurals(structurals_in, whitespace, quote_mask, quote_bits, prev_iter_ends_pseudo_pred, W) ==
  LET s1 == structurals_in \cap Not(quote_mask, W)
      s2 == s1 \cup quote_bits
      pseudo_pred == s2 \cup whitespace
      shifted_pseudo_pred ==
        Shl1(pseudo_pred, W) \cup BoolBit(prev_iter_ends_pseudo_pred)
      pseudo_structurals ==
        (shifted_pseudo_pred \cap Not(whitespace, W)) \cap Not(quote_mask, W)
      s3 == s2 \cup pseudo_structurals
      s4 == s3 \cap Not(quote_bits \cap Not(quote_mask, W), W)
  IN  [structurals |-> s4,
       prev_iter_ends_pseudo_pred |-> ((W - 1) \in pseudo_pred)]

(***************************************************************************)
(* flatten_bits: the set bits of `bits`, lowest first, are written to the  *)
(* index array as offsets of the lane that ended at idx.                   *)
(***************************************************************************)
\* the n-th lowest set bit (count trailing zeros, clear lowest bit, repeat)
NthBit(bits, n) == CHOOSE x \in bits : Cardinality({y \in bits : y < x}) = n - 1

flatten_bits(base_ptr, idx, bits, W) ==
  base_ptr \o [n \in 1 .. Cardinality(bits) |-> (idx - W) + NthBit(bits, n)]

\* utf8_checker::check_next_input, for ASCII text and the bytes of Utf8Never
check_next_input(utf8_error, in, W) ==
  utf8_error \/ (\E i \in Bits(W) : in[i] \in Utf8Never)

(***************************************************************************)
(* The kernel: find_structural_bits(in_buf, idx, base_ptr, base, carry...) *)
(* k holds the kernel's reference parameters.  The chunk in_buf is a       *)
(* sequence of SW bytes, cut into SW / W lanes; each pass runs over all    *)
(* lanes (each64, map64) before the next pass starts.                      *)
(***************************************************************************)
Lanes(W, SW) == SW \div W

RECURSIVE utf8_pass(_, _, _, _, _)
utf8_pass(in_buf, chunk, utf8_error, W, SW) ==
  IF chunk = Lanes(W, SW) THEN utf8_error
  ELSE utf8_pass(in_buf, chunk + 1,
                 check_next_input(utf8_error, simd_input64(in_buf, chunk * W, W), W),
                 W, SW)

RECURSIVE odd_ends_pass(_, _, _, _, _, _)
odd_ends_pass(in_buf, chunk, prev_iter_ends_odd_backslash, odd_ends, W, SW) ==
  IF chunk = Lanes(W, SW)
  THEN [odd_ends |-> odd_ends,
        prev_iter_ends_odd_backslash |-> prev_iter_ends_odd_backslash]
  ELSE LET in64 == simd_input64(in_buf, chunk * W, W)
           r == find_odd_backslash_sequences(eq(in64, Backslash, W),
                                             prev_iter_ends_odd_backslash, W)
       IN  odd_ends_pass(in_buf, chunk + 1, r.prev_iter_ends_odd_backslash,
                         Append(odd_ends, r.odd_ends), W, SW)

RECURSIVE quote_pass(_, _, _, _, _, _, _, _, _)
quote_pass(in_buf, chunk, odd_ends, prev_iter_inside_quote, error_mask, quote_mask, quote_bits, W, SW) ==
  IF chunk = Lanes(W, SW)
  THEN [quote_mask |-> quote_mask, quote_bits |-> quote_bits,
        prev_iter_inside_quote |-> prev_iter_inside_quote,
        error_mask |-> error_mask]
  ELSE LET in64 == simd_input64(in_buf, chunk * W, W)
           unescaped == lteq(in64, MaxControl, W)
           r == find_quote_mask_and_bits(unescaped, odd_ends[chunk + 1],
                                         prev_iter_inside_quote,
                                         eq(in64, Quote, W), error_mask, W)
       IN  quote_pass(in_buf, chunk + 1, odd_ends, r.prev_iter_inside_quote,
                      r.error_mask, Append(quote_mask, r.quote_mask),
                      Append(quote_bits, r.quote_bits), W, SW)

RECURSIVE flatten_pass(_, _, _, _, _, _, _, _, _, _)
flatten_pass(chunk, ws, quote_mask, quote_bits, base_ptr, idx, prev_structurals, prev_iter_ends_pseudo_pred, W, SW) ==
  IF chunk = Lanes(W, SW)
  THEN [base_ptr |-> base_ptr, idx |-> idx,
        prev_structurals |-> prev_structurals,
        prev_iter_ends_pseudo_pred |-> prev_iter_ends_pseudo_pred]
  ELSE LET r == finalize_structurals(ws[chunk + 1].structurals,
                                     ws[chunk + 1].whitespace,
                                     quote_mask[chunk + 1], quote_bits[chunk + 1],
                                     prev_iter_ends_pseudo_pred, W)
       IN  flatten_pass(chunk + 1, ws, quote_mask, quote_bits,
                        flatten_bits(base_ptr, idx, prev_structurals, W),
                        idx + W, r.structurals, r.prev_iter_ends_pseudo_pred,
                        W, SW)

\* the offsets, in the whole input, of the bits of the lanes' masks
Absolute(masks, idx, W) ==
  UNION {{idx + (c - 1) * W + i : i \in masks[c]} : c \in 1 .. Len(masks)}

kernel(in_buf, k, W, SW) ==
  LET utf8 == utf8_pass(in_buf, 0, k.utf8_error, W, SW)
      o == odd_ends_pass(in_buf, 0, k.prev_iter_ends_odd_backslash, <<>>, W, SW)
      q == quote_pass(in_buf, 0, o.odd_ends, k.prev_iter_inside_quote,
                      k.error_mask, <<>>, <<>>, W, SW)
      ws == [c \in 1 .. Lanes(W, SW) |->
               find_whitespace_and_structurals(
                 simd_input64(in_buf, (c - 1) * W, W), W)]
      f == flatten_pass(0, ws, q.quote_mask, q.quote_bits, k.base_ptr, k.idx,
                        k.prev_structurals, k.prev_iter_ends_pseudo_pred, W, SW)
  IN  [idx |-> f.idx,
       base_ptr |-> f.base_ptr,
       prev_iter_ends_odd_backslash |-> o.prev_iter_ends_odd_backslash,
       prev_iter_inside_quote |-> q.prev_iter_inside_quote,
       prev_iter_ends_pseudo_pred |-> f.prev_iter_ends_pseudo_pred,
       prev_structurals |-> f.prev_structurals,
       error_mask |-> q.error_mask,
       utf8_error |-> utf8,
       quote_bits_seen |->
         k.quote_bits_seen \cup Absolute(q.quote_bits, k.idx, W)]

(***************************************************************************)
(* find_structural_bits(buf, len, pj): the pieces of its body.             *)
(***************************************************************************)
InitialCarry(W) ==
  [idx |-> 0,
   base_ptr |-> <<>>,
   prev_iter_ends_odd_backslash |-> FALSE,
   prev_iter_inside_quote |-> {},
   prev_iter_ends_pseudo_pred |-> TRUE,
   prev_structurals |-> {},
   error_mask |-> {},
   utf8_error |-> FALSE,
   quote_bits_seen |-> {}]

\* a variant of the loop bound that is one too large
LastChunkIdx_off_by_one(len, SW) == IF len < SW THEN 0 ELSE len - SW + 1

LastChunkIdx(len, SW) == IF len < SW THEN 0 ELSE len - SW

\* &buf[idx]: the SW bytes of the input that start at idx
full_chunk(b, idx, SW) == [i \in 1 .. SW |-> b[idx + i]]

\* tmp_buf after memset(tmp_buf, 0x20, SIMD_WIDTH); memcpy(tmp_buf, buf + idx, len - idx)
tmp_buf(b, idx, SW) ==
  [i \in 1 .. SW |-> IF i <= Len(b) - idx THEN b[idx + i] ELSE Space]

\* variants of lines 226-254: one never appends the virtual terminator, one
\* consults the UTF-8 verdict before error_mask
finish_no_terminator(k, len, n_before, W) ==
  IF k.prev_iter_inside_quote # {}
  THEN [status |-> "UNCLOSED_STRING", structural_indexes |-> k.base_ptr,
        n_structural_indexes |-> n_before]
  ELSE LET base_ptr == flatten_bits(k.base_ptr, k.idx, k.prev_structurals, W)
           n == Len(base_ptr)
       IN  IF n = 0
           THEN [status |-> "EMPTY", structural_indexes |-> base_ptr,
                 n_structural_indexes |-> n]
           ELSE IF base_ptr[n] > len
           THEN [status |-> "UNEXPECTED_ERROR", structural_indexes |-> base_ptr,
                 n_structural_indexes |-> n]
           ELSE [status |-> IF k.error_mask # {} THEN "UNESCAPED_CHARS"
                            ELSE IF k.utf8_error THEN "UTF8_ERROR"
                            ELSE "SUCCESS",
                 structural_indexes |-> Append(base_ptr, 0),
                 n_structural_indexes |-> n]

finish_utf8_first(k, len, n_before, W) ==
  IF k.prev_iter_inside_quote # {}
  THEN [status |-> "UNCLOSED_STRING", structural_indexes |-> k.base_ptr,
        n_structural_indexes |-> n_before]
  ELSE LET base_ptr == flatten_bits(k.base_ptr, k.idx, k.prev_structurals, W)
           n == Len(base_ptr)
       IN  IF n = 0
           THEN [status |-> "EMPTY", structural_indexes |-> base_ptr,
                 n_structural_indexes |-> n]
           ELSE IF base_ptr[n] > len
           THEN [status |-> "UNEXPECTED_ERROR", structural_indexes |-> base_ptr,
                 n_structural_indexes |-> n]
           ELSE LET withEnd == IF len # base_ptr[n]
                               THEN Append(base_ptr, len) ELSE base_ptr
                IN  [status |-> IF k.utf8_error THEN "UTF8_ERROR"
                                ELSE IF k.error_mask # {} THEN "UNESCAPED_CHARS"
                                ELSE "SUCCESS",
                     structural_indexes |-> Append(withEnd, 0),
                     n_structural_indexes |-> Len(withEnd)]

\* lines 226-254: what the call returns and leaves in pj once the chunks are done
finish(k, len, n_before, W) ==
  IF k.prev_iter_inside_quote # {}
  THEN [status |-> "UNCLOSED_STRING", structural_indexes |-> k.base_ptr,
        n_structural_indexes |-> n_before]
  ELSE LET base_ptr == flatten_bits(k.base_ptr, k.idx, k.prev_structurals, W)
           n == Len(base_ptr)
       IN  IF n = 0
           THEN [status |-> "EMPTY", structural_indexes |-> base_ptr,
                 n_structural_indexes |-> n]
           ELSE IF base_ptr[n] > len
           THEN [status |-> "UNEXPECTED_ERROR", structural_indexes |-> base_ptr,
                 n_structural_indexes |-> n]
           ELSE LET withEnd == IF len # base_ptr[n]
                               THEN Append(base_ptr, len) ELSE base_ptr
                IN  [status |-> IF k.error_mask # {} THEN "UNESCAPED_CHARS"
                                ELSE IF k.utf8_error THEN "UTF8_ERROR"
                                ELSE "SUCCESS",
                     structural_indexes |-> Append(withEnd, 0),
                     n_structural_indexes |-> Len(withEnd)]

(***************************************************************************)
(* Inputs.  A buffer is a sequence of bytes (0 .. 255).                    *)
(***************************************************************************)
MaxShortLen == 3
WindowLen == 4
MaxLongLen == 130
MaxPhase == 2

\* a backslash, a quote, a control byte, a space, a structural byte, a letter
Alphabet == {Backslash, Quote, 1, Space, 123, 97}

Repeat(c, n) == [i \in 1 .. n |-> c]

\* every buffer of at most MaxShortLen bytes
ShortInputs == UNION {[1 .. n -> Alphabet] : n \in 0 .. MaxShortLen}

\* {"a":1}   "a\\\"b"   "abc   "a<01>b"   "s"a \"b{   {"a":"<ff>"}   "<01><ff>"
Scenario1 == <<123, 34, 97, 34, 58, 49, 125>>
Scenario2 == <<34, 97, 92, 92, 92, 34, 98, 34>>
Scenario3 == <<34, 97, 98, 99>>
Scenario4 == <<34, 97, 1, 98, 34>>
Scenario5 == <<34, 115, 34, 97, 32, 92, 34, 98, 123>>
ScenarioInputs ==
  {Scenario1, Scenario2, Scenario3, Scenario4, Scenario5,
   <<123, 34, 97, 34, 58, 34, 255, 34, 125>>, <<34, 1, 255, 34>>}

\* a window of WindowLen free bytes across the first chunk boundary, after
\* a filler that leaves the scan outside or inside a string
Fillers ==
  LET n == SIMD_WIDTH - (WindowLen \div 2)
  IN  {Repeat(Space, n), <<Quote>> \o Repeat(97, n - 1)}
StraddleInputs ==
  {f \o w : f \in Fillers, w \in [1 .. WindowLen -> Alphabet]}

\* every length up to MaxLongLen, cut from a periodic text: {"a\"":1} ...
Period == <<123, 34, 97, 92, 34, 34, 58, 49, 125, 32, 44>>
LongInputs ==
  {[i \in 1 .. n |-> Period[((i - 1 + p) % Len(Period)) + 1]] :
     n \in 0 .. MaxLongLen, p \in 0 .. MaxPhase}

Inputs == ShortInputs \cup ScenarioInputs \cup StraddleInputs \cup LongInputs

(***************************************************************************)
(* State.                                                                  *)
(***************************************************************************)
VARIABLES
  buf,                  \* the input buffer; len = Len(buf)
  byte_capacity,        \* pj.byte_capacity
  pc,                   \* position in find_structural_bits(buf, len, pj)
  k,                    \* idx, base_ptr/base and the carry record
  structural_indexes,   \* pj.structural_indexes, the slots written so far
  n_structural_indexes, \* pj.n_structural_indexes
  status,               \* the value returned by the last call
  scans,                \* history: the kernel calls made, in order
  batch_size,           \* JsonStream::batch_size
  next_json,            \* JsonStream::next_json
  error_on_last_attempt,
  load_next_batch,
  current_buffer_loc,
  n_parsed_docs,
  n_bytes_parsed,
  error_code,           \* pj.error_code: the error the latch re-reports
  results,              \* history: what each json_parse call returned
  delivered,            \* history: the byte range of each document delivered
  resets                \* history: the set_new_buffer calls made

stage1vars == <<pc, k, scans>>
pjvars == <<structural_indexes, n_structural_indexes>>
streamvars == <<batch_size, next_json, error_on_last_attempt, load_next_batch,
                current_buffer_loc, n_parsed_docs, n_bytes_parsed, error_code,
                results, delivered, resets>>
vars == <<buf, byte_capacity, status, stage1vars, pjvars, streamvars>>

\* JsonStream(buf, len, batch_size) and the default member initialisers
DefaultBatchSize == 1000000
StreamInit ==
  /\ next_json = 0
  /\ error_on_last_attempt = FALSE
  /\ load_next_batch = TRUE
  /\ current_buffer_loc = 0
  /\ n_parsed_docs = 0
  /\ n_bytes_parsed = 0
  /\ error_code = "SUCCESS"
  /\ results = <<>>
  /\ delivered = <<>>
  /\ resets = 0

len == Len(buf)
last_chunk_idx == LastChunkIdx(len, SIMD_WIDTH)

Init ==
  /\ buf \in Inputs
  /\ byte_capacity \in {c \in {Len(buf) - 1, Len(buf)} : c >= 0}
  /\ pc = "entry"
  /\ k = InitialCarry(LaneBits)
  /\ structural_indexes = <<>>
  /\ n_structural_indexes = 0
  /\ status = "none"
  /\ scans = <<>>
  /\ batch_size = DefaultBatchSize
  /\ StreamInit

\* if (len > pj.byte_capacity) return CAPACITY
CapacityError ==
  /\ pc = "entry"
  /\ len > byte_capacity
  /\ status' = "CAPACITY"
  /\ pc' = "done"
  /\ UNCHANGED <<buf, byte_capacity, k, structural_indexes,
                 n_structural_indexes, scans>>
  /\ UNCHANGED streamvars

\* lines 175-206: the carry record is initialised
Begin ==
  /\ pc = "entry"
  /\ ~(len > byte_capacity)
  /\ k' = InitialCarry(LaneBits)
  /\ pc' = "loop"
  /\ UNCHANGED <<buf, byte_capacity, structural_indexes,
                 n_structural_indexes, status, scans>>
  /\ UNCHANGED streamvars

\* one iteration of while (idx < last_chunk_idx)
FullChunk ==
  /\ pc = "loop"
  /\ k.idx < last_chunk_idx
  /\ k' = kernel(full_chunk(buf, k.idx, SIMD_WIDTH), k, LaneBits, SIMD_WIDTH)
  /\ structural_indexes' = k'.base_ptr
  /\ scans' = Append(scans, [idx |-> k.idx, from |-> "buf", n |-> SIMD_WIDTH])
  /\ UNCHANGED <<buf, byte_capacity, pc, n_structural_indexes, status>>
  /\ UNCHANGED streamvars

\* the loop is left with idx < len: the final chunk, from the padded copy
TailChunk ==
  /\ pc = "loop"
  /\ ~(k.idx < last_chunk_idx)
  /\ k.idx < len
  /\ k' = kernel(tmp_buf(buf, k.idx, SIMD_WIDTH), k, LaneBits, SIMD_WIDTH)
  /\ structural_indexes' = k'.base_ptr
  /\ scans' = Append(scans, [idx |-> k.idx, from |-> "tmp_buf", n |-> len - k.idx])
  /\ pc' = "finish"
  /\ UNCHANGED <<buf, byte_capacity, n_structural_indexes, status>>
  /\ UNCHANGED streamvars

\* the loop is left with idx >= len: no final chunk
NoTail ==
  /\ pc = "loop"
  /\ ~(k.idx < last_chunk_idx)
  /\ ~(k.idx < len)
  /\ pc' = "finish"
  /\ UNCHANGED <<buf, byte_capacity, k, structural_indexes,
                 n_structural_indexes, status, scans>>
  /\ UNCHANGED streamvars

\* lines 226-254
Finish ==
  /\ pc = "finish"
  /\ LET r == finish(k, len, n_structural_indexes, LaneBits)
     IN  /\ status' = r.status
         /\ structural_indexes' = r.structural_indexes
         /\ n_structural_indexes' = r.n_structural_indexes
  /\ pc' = "done"
  /\ UNCHANGED <<buf, byte_capacity, k, scans>>
  /\ UNCHANGED streamvars

Next == CapacityError \/ Begin \/ FullChunk \/ TailChunk \/ NoTail \/ Finish

Spec == Init /\ [][Next]_vars

\* the pj.n_structural_indexes offsets written to pj.structural_indexes
Output == SubSeq(structural_indexes, 1, n_structural_indexes)
OutputSet == {Output[i] : i \in 1 .. Len(Output)}

(***************************************************************************)
(* The words of the claims, byte by byte on the input.                     *)
(***************************************************************************)
ByteAt(i) == buf[i + 1]
Offsets == 0 .. (len - 1)

\* the length of the maximal run of backslashes that ends right before offset i
RunBefore(i) ==
  CHOOSE n \in 0 .. i :
    /\ \A m \in 1 .. n : ByteAt(i - m) = Backslash
    /\ (n = i \/ ByteAt(i - n - 1) # Backslash)

QuoteOffsets == {i \in Offsets : ByteAt(i) = Quote}
EscapedQuotes == {i \in QuoteOffsets : RunBefore(i) % 2 = 1}
UnescapedQuotes == QuoteOffsets \ EscapedQuotes
EndsInsideString == Cardinality(UnescapedQuotes) % 2 = 1

\* with uq the unescaped quotes of the input:
QuotesBefore(uq, i) == Cardinality({q \in uq : q < i})
OpeningQuotes(uq) == {q \in uq : QuotesBefore(uq, q) % 2 = 0}
ClosingQuotes(uq) == uq \ OpeningQuotes(uq)
\* the string literals: <<offset of the opening quote, offset of the closing quote>>
Literals(uq) ==
  {<<o, c>> \in OpeningQuotes(uq) \X ClosingQuotes(uq) :
     o < c /\ QuotesBefore(uq, c) = QuotesBefore(uq, o) + 1}
\* the offsets in the span of a string (closed or not), its quotes included
InsideString(uq) ==
  {i \in Offsets : QuotesBefore(uq, i) % 2 = 1 \/ i \in OpeningQuotes(uq)}
\* the offsets after an opening quote and before the quote that closes it
WithinString(uq) ==
  {i \in Offsets : QuotesBefore(uq, i) % 2 = 1 /\ i \notin uq}

IsStructural(i) == ByteAt(i) \in StructuralChars
IsWhitespace(i) == ByteAt(i) \in Whitespace
Scanned == pc \in {"finish", "done"} /\ status # "CAPACITY"
Flattened == pc = "done" /\ status \notin {"CAPACITY", "UNCLOSED_STRING"}

(***************************************************************************)
(* C1: whenever find_structural_bits returns SUCCESS, the                  *)
(* n_structural_indexes offsets it wrote are strictly increasing, each     *)
(* lies in [0, len], and the last one is len.                              *)
(***************************************************************************)
TheoremC1 ==
  (pc = "done" /\ status = "SUCCESS") =>
    /\ n_structural_indexes >= 1
    /\ \A i \in 1 .. Len(Output) : Output[i] \in 0 .. len
    /\ \A i \in 1 .. (Len(Output) - 1) : Output[i] < Output[i + 1]
    /\ Output[Len(Output)] = len

\* a successful call over three chunks that emitted offsets from each of them
WitnessC1 ==
  /\ pc = "done" /\ status = "SUCCESS"
  /\ len > 2 * SIMD_WIDTH
  /\ \E i \in 1 .. Len(Output) : Output[i] < SIMD_WIDTH
  /\ \E i \in 1 .. Len(Output) : Output[i] \in SIMD_WIDTH .. (2 * SIMD_WIDTH - 1)
  /\ \E i \in 1 .. Len(Output) : Output[i] \in (2 * SIMD_WIDTH) .. (len - 1)

(***************************************************************************)
(* find_structural_bits(buf, len, pj) as one function of the buffer, for a *)
(* lane width W and a chunk width SW: what the actions above do step by    *)
(* step with W = LaneBits and SW = SIMD_WIDTH.                             *)
(***************************************************************************)
RECURSIVE scan_chunks(_, _, _, _)
scan_chunks(b, kk, W, SW) ==
  IF kk.idx < LastChunkIdx(Len(b), SW)
  THEN scan_chunks(b, kernel(full_chunk(b, kk.idx, SW), kk, W, SW), W, SW)
  ELSE IF kk.idx < Len(b)
  THEN kernel(tmp_buf(b, kk.idx, SW), kk, W, SW)
  ELSE kk

find_structural_bits(b, capacity, n_before, W, SW) ==
  IF Len(b) > capacity
  THEN [status |-> "CAPACITY", structural_indexes |-> <<>>,
        n_structural_indexes |-> n_before]
  ELSE finish(scan_chunks(b, InitialCarry(W), W, SW), Len(b), n_before, W)

\* the input padded to whole lanes
PaddedLen(n) == IF n = 0 THEN LaneBits ELSE ((n + LaneBits - 1) \div LaneBits) * LaneBits

\* the whole input indexed as one single chunk: one lane as wide as the input
WholeScan(b) ==
  find_structural_bits(b, Len(b), 0, PaddedLen(Len(b)), PaddedLen(Len(b)))

(***************************************************************************)
(* C2: chunk by chunk with the carry record handed on, the call returns    *)
(* the same status and the same offsets as the scan of the whole input as  *)
(* one single chunk.                                                       *)
(***************************************************************************)
TheoremC2 ==
  (pc = "done" /\ status # "CAPACITY") =>
    LET w == WholeScan(buf)
    IN  /\ status = w.status
        /\ Output = SubSeq(w.structural_indexes, 1, w.n_structural_indexes)

\* a string crosses a chunk boundary with a backslash as the last byte of
\* the one chunk and the quote it escapes as the first byte of the next
WitnessC2 ==
  /\ pc = "done" /\ status = "SUCCESS"
  /\ len > SIMD_WIDTH
  /\ ByteAt(SIMD_WIDTH - 1) = Backslash /\ ByteAt(SIMD_WIDTH) = Quote
  /\ {SIMD_WIDTH - 1, SIMD_WIDTH} \subseteq WithinString(UnescapedQuotes)
  /\ \E l \in Literals(UnescapedQuotes) :
       l[1] < SIMD_WIDTH - 1 /\ l[2] > SIMD_WIDTH /\ l[1] \in OutputSet

\* a structural predecessor is the last byte of a chunk, its atom the first
\* byte of the next
WitnessC2Pred ==
  /\ pc = "done" /\ status = "SUCCESS"
  /\ len > SIMD_WIDTH
  /\ IsStructural(SIMD_WIDTH - 1)
  /\ (SIMD_WIDTH - 1) \notin InsideString(UnescapedQuotes)
  /\ ByteAt(SIMD_WIDTH) = 97
  /\ SIMD_WIDTH \in OutputSet

(***************************************************************************)
(* C3 as stated: for every offset outside every string, the offset is      *)
(* emitted iff its byte is structural, or is not whitespace and follows a  *)
(* whitespace byte, a structural byte, a quote, or the start of the buffer.*)
(* Stated here for calls that return SUCCESS only.                         *)
(***************************************************************************)
OriginalC3 ==
  (pc = "done" /\ status = "SUCCESS") =>
    \A i \in Offsets \ InsideString(UnescapedQuotes) :
        (i \in OutputSet <=>
           \/ IsStructural(i)
           \/ /\ ~IsWhitespace(i)
              /\ \/ i = 0
                 \/ IsWhitespace(i - 1)
                 \/ IsStructural(i - 1)
                 \/ ByteAt(i - 1) = Quote)

(***************************************************************************)
(* C3 amended: when the call returns neither CAPACITY nor UNCLOSED_STRING, *)
(* an offset outside every string is emitted iff its byte is structural,   *)
(* or is not whitespace and follows a whitespace byte, a structural byte,  *)
(* an unescaped quote, or the start of the buffer; and {"a":1} yields      *)
(* exactly 0, 1, 4, 5, 6, 7 with SUCCESS.                                  *)
(***************************************************************************)
TheoremC3 ==
  /\ Flattened =>
       LET uq == UnescapedQuotes
           out == OutputSet
       IN  \A i \in Offsets \ InsideString(uq) :
             (i \in out <=>
                \/ IsStructural(i)
                \/ /\ ~IsWhitespace(i)
                   /\ \/ i = 0
                      \/ IsWhitespace(i - 1)
                      \/ IsStructural(i - 1)
                      \/ (i - 1) \in uq)
  /\ (pc = "done" /\ buf = Scenario1 /\ status # "CAPACITY") =>
       (Output = <<0, 1, 4, 5, 6, 7>> /\ status = "SUCCESS")

\* outside every string: an atom after a closing quote is emitted, a byte
\* after an escaped quote is not, and a structural byte after an atom is
WitnessC3 ==
  /\ Flattened
  /\ LET uq == UnescapedQuotes
         outside == Offsets \ InsideString(uq)
     IN  /\ \E i \in outside :
              /\ i > 0 /\ ~IsWhitespace(i) /\ ~IsStructural(i)
              /\ (i - 1) \in ClosingQuotes(uq) /\ i \in OutputSet
         /\ \E i \in outside :
              /\ i > 0 /\ ~IsWhitespace(i)
              /\ (i - 1) \in EscapedQuotes /\ i \notin OutputSet
         /\ \E i \in outside :
              /\ i > 0 /\ IsStructural(i)
              /\ ~IsWhitespace(i - 1) /\ ~IsStructural(i - 1)
              /\ ByteAt(i - 1) # Quote /\ i \in OutputSet

(***************************************************************************)
(* C4 as stated: for every string literal, exactly two emitted offsets lie *)
(* in its span, the opening quote and the byte after it, and the closing   *)
(* quote is not emitted.  Stated here for calls that return SUCCESS only.  *)
(***************************************************************************)
OriginalC4 ==
  (pc = "done" /\ status = "SUCCESS") =>
    \A l \in Literals(UnescapedQuotes) :
      /\ OutputSet \cap (l[1] .. l[2]) = {l[1], l[1] + 1}
      /\ l[2] \notin OutputSet

(***************************************************************************)
(* C4 amended: when the call returns neither CAPACITY nor UNCLOSED_STRING, *)
(* exactly one emitted offset lies in the span of each string literal: its *)
(* opening quote; the byte after it and the closing quote are not emitted. *)
(***************************************************************************)
TheoremC4 ==
  Flattened =>
    LET out == OutputSet
    IN  \A l \in Literals(UnescapedQuotes) : out \cap (l[1] .. l[2]) = {l[1]}

\* a string with structural bytes, whitespace and an escaped quote in it,
\* closed in a later chunk than it opened in
WitnessC4 ==
  /\ Flattened
  /\ \E l \in Literals(UnescapedQuotes) :
       /\ l[1] < SIMD_WIDTH /\ l[2] >= SIMD_WIDTH
       /\ \E i \in (l[1] + 1) .. (l[2] - 1) : IsStructural(i)
       /\ \E i \in (l[1] + 1) .. (l[2] - 1) : i \in EscapedQuotes
       /\ l[1] \in OutputSet

(***************************************************************************)
(* C5: once the chunks are scanned, a quote byte is missing from the quote *)
(* bits iff the maximal run of backslashes right before it has odd length, *)
(* the run counted across chunk boundaries.                                *)
(***************************************************************************)
TheoremC5 ==
  Scanned =>
    /\ \A i \in QuoteOffsets :
         (i \notin k.quote_bits_seen) <=> (RunBefore(i) % 2 = 1)
    /\ k.quote_bits_seen \subseteq QuoteOffsets

\* a quote that opens a chunk after a backslash run that began in the chunk
\* before: one such run of odd length (escaped) or of even length (kept)
WitnessC5 ==
  /\ Scanned
  /\ len > SIMD_WIDTH
  /\ ByteAt(SIMD_WIDTH) = Quote
  /\ RunBefore(SIMD_WIDTH) = 1
  /\ SIMD_WIDTH \notin k.quote_bits_seen

WitnessC5Even ==
  /\ Scanned
  /\ len > SIMD_WIDTH
  /\ ByteAt(SIMD_WIDTH) = Quote
  /\ RunBefore(SIMD_WIDTH) = 2
  /\ SIMD_WIDTH \in k.quote_bits_seen

(***************************************************************************)
(* C6: the call returns UNCLOSED_STRING exactly when len <= byte_capacity  *)
(* and the number of unescaped quotes in the input is odd.                 *)
(***************************************************************************)
TheoremC6 ==
  pc = "done" =>
    (status = "UNCLOSED_STRING" <=> (len <= byte_capacity /\ EndsInsideString))

\* a string opened in one chunk and never closed in the next
WitnessC6 ==
  /\ pc = "done" /\ status = "UNCLOSED_STRING"
  /\ len > SIMD_WIDTH
  /\ \E q \in UnescapedQuotes : q < SIMD_WIDTH
  /\ \E q \in EscapedQuotes : q >= SIMD_WIDTH

(***************************************************************************)
(* C7 as stated: whenever a byte <= 0x1F lies inside a string, the call    *)
(* reports UNESCAPED_CHARS.  Stated here for len <= byte_capacity only.    *)
(***************************************************************************)
OriginalC7 ==
  (pc = "done" /\ status # "CAPACITY") =>
    ((\E i \in WithinString(UnescapedQuotes) : ByteAt(i) <= MaxControl)
       => status = "UNESCAPED_CHARS")

(***************************************************************************)
(* C7 amended: whenever a byte <= 0x1F lies inside a string, the input     *)
(* does not end inside a string and len <= byte_capacity, the call reports *)
(* UNESCAPED_CHARS; when the input ends inside a string it reports         *)
(* UNCLOSED_STRING instead.                                                *)
(***************************************************************************)
TheoremC7 ==
  (pc = "done" /\ status # "CAPACITY") =>
    ((\E i \in WithinString(UnescapedQuotes) : ByteAt(i) <= MaxControl)
       => status = IF EndsInsideString THEN "UNCLOSED_STRING"
                   ELSE "UNESCAPED_CHARS")

\* the control byte is in the first chunk, the string closes in the second
WitnessC7 ==
  /\ pc = "done" /\ status = "UNESCAPED_CHARS"
  /\ len > SIMD_WIDTH
  /\ \E i \in WithinString(UnescapedQuotes) :
       ByteAt(i) <= MaxControl /\ i < SIMD_WIDTH
  /\ \E l \in Literals(UnescapedQuotes) : l[2] >= SIMD_WIDTH

(***************************************************************************)
(* C10: for 0 < len <= byte_capacity the loop over full chunks is left     *)
(* with idx a multiple of SIMD_WIDTH and 0 < len - idx <= SIMD_WIDTH, the  *)
(* final chunk is scanned from the padded copy, and every input byte is    *)
(* scanned by exactly one kernel call.                                     *)
(***************************************************************************)
TheoremC10 ==
  /\ (pc = "loop" /\ len > 0) => (k.idx % SIMD_WIDTH = 0 /\ k.idx < len)
  /\ (Scanned /\ len > 0) =>
       /\ Len(scans) >= 1
       /\ LET last == scans[Len(scans)]
          IN  /\ last.from = "tmp_buf"
              /\ last.idx % SIMD_WIDTH = 0
              /\ 0 < len - last.idx /\ len - last.idx <= SIMD_WIDTH
              /\ last.n = len - last.idx
       /\ \A s \in 1 .. (Len(scans) - 1) : scans[s].from = "buf"
       /\ \A i \in Offsets :
            Cardinality({s \in 1 .. Len(scans) :
                           scans[s].idx <= i /\ i < scans[s].idx + scans[s].n}) = 1

\* a full chunk and a final chunk of exactly SIMD_WIDTH bytes
WitnessC10 ==
  /\ Scanned
  /\ Len(scans) = 2
  /\ scans[2].from = "tmp_buf" /\ scans[2].n = SIMD_WIDTH

(***************************************************************************)
(* The stream driver, JsonStream.  The class (its fields and their initial *)
(* values) is jsonstream.h; json_parse and set_new_buffer follow the       *)
(* driver's description: a batch is the largest prefix of the remaining    *)
(* buffer, at most batch_size bytes, that ends at a document boundary;     *)
(* Stage 1 (find_structural_bits above) indexes it with a fresh carry      *)
(* record; Stage 2 takes one document per call from the indexes.           *)
(***************************************************************************)
MaxDocs == 2
MaxBatch == 10
MaxCalls == 5
MaxResets == 1

Openers == {123, 91}
Closers == {125, 93}

\* {"x":1}   [2]   {"s":"}"}
GoodDocs ==
  {<<123, 34, 120, 34, 58, 49, 125>>, <<91, 50, 93>>,
   <<123, 34, 115, 34, 58, 34, 125, 34, 125>>}
\* ["<01>"] fails in Stage 1, {] fails in Stage 2
BadDocs == {<<91, 34, 1, 34, 93>>, <<123, 93>>}

RECURSIVE Join(_)
Join(ds) ==
  IF ds = <<>> THEN <<>>
  ELSE IF Len(ds) = 1 THEN ds[1]
  ELSE ds[1] \o <<Space>> \o Join(Tail(ds))

\* up to MaxDocs documents, a space between them, bare or inside whitespace
Streams(docs) ==
  LET bare == {Join(ds) : ds \in UNION {[1 .. n -> docs] : n \in 0 .. MaxDocs}}
  IN  bare \cup {<<Space>> \o b \o <<Space, 10>> : b \in bare}
\* three documents: {"x":1} {"x":1} {"x":1} and {"x":1} [2] {"s":"}"}
TripleStreams ==
  LET x == <<123, 34, 120, 34, 58, 49, 125>>
  IN  {Join(<<x, x, x>>),
       Join(<<x, <<91, 50, 93>>, <<123, 34, 115, 34, 58, 34, 125, 34, 125>>>>)}
StreamInputs == Streams(GoodDocs \cup BadDocs) \cup TripleStreams
BatchSizes == (1 .. MaxBatch) \cup {DefaultBatchSize}
\* the buffer set_new_buffer is called with: [2] {]
NewBuffers == {Join(<<<<91, 50, 93>>, <<123, 93>>>>)}

Max(S) == CHOOSE x \in S : \A y \in S : y <= x

\* the bytes of the buffer from offset `from` up to, not including, `to`
Slice(from, to) == SubSeq(buf, from + 1, to)

\* the first offset at or after i whose byte is not whitespace, or len
SkipWhitespace(i) ==
  CHOOSE j \in i .. len :
    /\ (j = len \/ ~IsWhitespace(j))
    /\ \A m \in i .. (j - 1) : IsWhitespace(m)

\* the offsets of the closing brackets that end a top-level document
DocEnds ==
  LET out == Offsets \ InsideString(UnescapedQuotes)
      depth(i) == Cardinality({j \in out : j <= i /\ ByteAt(j) \in Openers})
                  - Cardinality({j \in out : j <= i /\ ByteAt(j) \in Closers})
  IN  {i \in out : ByteAt(i) \in Closers /\ depth(i) = 0}

\* where the batch that starts at `start` ends: the last document boundary
\* within batch_size bytes; all that is left when no boundary is left; -1
\* when the first document is longer than the batch
batch_end(start, bs) ==
  LET limit == IF start + bs < len THEN start + bs ELSE len
      ends == {e \in (start + 1) .. limit : (e - 1) \in DocEnds}
  IN  IF ends # {} THEN Max(ends)
      ELSE IF limit = len THEN len
      ELSE -1

\* Stage 2 on the document whose first index is idxs[j]: brackets are
\* matched over the indexed bytes; `last` is the index of the closing one
RECURSIVE unified_machine(_, _, _, _, _)
unified_machine(bytes, idxs, n, j, stack) ==
  IF j >= n THEN [status |-> "TAPE_ERROR", last |-> j]
  ELSE LET c == bytes[idxs[j] + 1]
       IN  IF c \in Openers
           THEN unified_machine(bytes, idxs, n, j + 1, <<c>> \o stack)
           ELSE IF stack = <<>>
           THEN [status |-> "TAPE_ERROR", last |-> j]
           ELSE IF c \in Closers
           THEN IF c # stack[1] + 2
                THEN [status |-> "TAPE_ERROR", last |-> j]
                ELSE IF Len(stack) = 1
                THEN [status |-> "SUCCESS", last |-> j]
                ELSE unified_machine(bytes, idxs, n, j + 1, Tail(stack))
           ELSE unified_machine(bytes, idxs, n, j + 1, stack)

\* the latch never closes
latches_never(ret) == FALSE

\* error_on_last_attempt after a call that returned ret
latches(ret) == ret \notin {"SUCCESS", "EMPTY"}

StreamState ==
  [next_json |-> next_json,
   error_on_last_attempt |-> error_on_last_attempt,
   load_next_batch |-> load_next_batch,
   current_buffer_loc |-> current_buffer_loc,
   n_parsed_docs |-> n_parsed_docs,
   n_bytes_parsed |-> n_bytes_parsed,
   error_code |-> error_code,
   structural_indexes |-> structural_indexes,
   n_structural_indexes |-> n_structural_indexes,
   ret |-> status,
   doc |-> <<>>]

failed(s, ret) ==
  [s EXCEPT !.error_on_last_attempt = latches(ret), !.error_code = ret,
            !.ret = ret, !.doc = <<>>]

\* one document is handed to Stage 2 from the batch that starts at `base`
deliver(s, base) ==
  LET n == s.n_structural_indexes
      idxs == s.structural_indexes
      bytes == Slice(base, base + idxs[n])
      r == unified_machine(bytes, idxs, n, s.next_json + 1, <<>>)
      batch_done == r.last + 1 = n
      loc == IF batch_done THEN SkipWhitespace(base + idxs[n])
             ELSE base + idxs[r.last + 1]
  IN  IF r.status # "SUCCESS" THEN failed(s, r.status)
      ELSE [s EXCEPT !.next_json = r.last,
                     !.n_parsed_docs = s.n_parsed_docs + 1,
                     !.current_buffer_loc = loc,
                     !.load_next_batch = batch_done,
                     !.n_bytes_parsed = IF batch_done THEN loc ELSE base,
                     !.error_on_last_attempt = FALSE,
                     !.ret = "SUCCESS",
                     !.doc = <<base + idxs[s.next_json + 1], base + idxs[r.last]>>]

\* JsonStream::json_parse(pj)
json_parse(s, bs) ==
  IF s.error_on_last_attempt
  THEN [s EXCEPT !.ret = s.error_code, !.doc = <<>>]
  ELSE IF ~s.load_next_batch
  THEN deliver(s, s.n_bytes_parsed)
  ELSE LET start == SkipWhitespace(s.current_buffer_loc)
           end == batch_end(start, bs)
       IN  IF start >= len THEN [s EXCEPT !.ret = "EMPTY", !.doc = <<>>]
           ELSE IF end < 0 THEN failed(s, "CAPACITY")
           ELSE LET batch == Slice(start, end)
                    r == find_structural_bits(batch, Len(batch),
                                              s.n_structural_indexes,
                                              LaneBits, SIMD_WIDTH)
                    loaded == [s EXCEPT
                                 !.structural_indexes = r.structural_indexes,
                                 !.n_structural_indexes = r.n_structural_indexes]
                IN  IF r.status # "SUCCESS" THEN failed(loaded, r.status)
                    ELSE deliver([loaded EXCEPT !.next_json = 0,
                                                !.n_bytes_parsed = start], start)

InitStream ==
  /\ buf \in StreamInputs
  /\ batch_size \in BatchSizes
  /\ byte_capacity = DefaultBatchSize
  /\ pc = "stream"
  /\ k = InitialCarry(LaneBits)
  /\ scans = <<>>
  /\ structural_indexes = <<>>
  /\ n_structural_indexes = 0
  /\ status = "none"
  /\ StreamInit

JsonParse ==
  /\ Len(results) < MaxCalls
  /\ \E s \in {json_parse(StreamState, batch_size)} :
         /\ next_json' = s.next_json
         /\ error_on_last_attempt' = s.error_on_last_attempt
         /\ load_next_batch' = s.load_next_batch
         /\ current_buffer_loc' = s.current_buffer_loc
         /\ n_parsed_docs' = s.n_parsed_docs
         /\ n_bytes_parsed' = s.n_bytes_parsed
         /\ error_code' = s.error_code
         /\ structural_indexes' = s.structural_indexes
         /\ n_structural_indexes' = s.n_structural_indexes
         /\ status' = s.ret
         /\ results' = Append(results, s.ret)
         /\ delivered' = IF s.doc = <<>> THEN delivered ELSE Append(delivered, s.doc)
  /\ UNCHANGED <<buf, byte_capacity, batch_size, resets, stage1vars>>

\* JsonStream::set_new_buffer(buf, len)
SetNewBuffer ==
  /\ resets < MaxResets
  /\ buf' \in NewBuffers
  /\ next_json' = 0
  /\ error_on_last_attempt' = FALSE
  /\ load_next_batch' = TRUE
  /\ current_buffer_loc' = 0
  /\ n_parsed_docs' = 0
  /\ n_bytes_parsed' = 0
  /\ results' = <<>>
  /\ delivered' = <<>>
  /\ resets' = resets + 1
  /\ UNCHANGED <<byte_capacity, batch_size, error_code, status, pjvars, stage1vars>>

NextStream == JsonParse \/ SetNewBuffer

SpecStream == InitStream /\ [][NextStream]_vars

(***************************************************************************)
(* The documents of the buffer, byte by byte.                              *)
(***************************************************************************)
DocStarts ==
  LET out == Offsets \ InsideString(UnescapedQuotes)
      depth(i) == Cardinality({j \in out : j <= i /\ ByteAt(j) \in Openers})
                  - Cardinality({j \in out : j <= i /\ ByteAt(j) \in Closers})
  IN  {i \in out : ByteAt(i) \in Openers /\ depth(i) = 1}
\* the byte range of the j-th document, given the starts and the ends
Doc(starts, ends, j) == <<NthBit(starts, j), NthBit(ends, j)>>
Docs(starts, ends) == [j \in 1 .. Cardinality(ends) |-> Doc(starts, ends, j)]
LongestDoc(docs) ==
  Max({0} \cup {docs[j][2] - docs[j][1] + 1 : j \in 1 .. Len(docs)})
\* the buffer holds well-formed documents and whitespace between them only
WellFormedStream(starts, docs) ==
  /\ Cardinality(starts) = Len(docs)
  /\ \A j \in 1 .. Len(docs) : Slice(docs[j][1], docs[j][2] + 1) \in GoodDocs
  /\ \A i \in Offsets :
       IsWhitespace(i) \/ (\E j \in 1 .. Len(docs) : docs[j][1] <= i /\ i <= docs[j][2])
Cursors == <<next_json, current_buffer_loc, n_parsed_docs, n_bytes_parsed>>

TheoremC9 ==
  [][LET call == Len(results') = Len(results) + 1
         reset == resets' = resets + 1
     IN  /\ (call /\ status' \notin {"SUCCESS", "EMPTY"}) => error_on_last_attempt'
         /\ (call /\ error_on_last_attempt) =>
              /\ status' = status
              /\ status' \notin {"SUCCESS", "EMPTY"}
              /\ error_on_last_attempt'
              /\ Cursors' = Cursors
         /\ reset =>
              /\ ~error_on_last_attempt'
              /\ load_next_batch'
              /\ Cursors' = <<0, 0, 0, 0>>]_vars

\* a document was delivered, the next one failed, and the call after that
\* returned the same error with the cursors where they were
WitnessC9 ==
  /\ pc = "stream"
  /\ error_on_last_attempt
  /\ n_parsed_docs >= 1
  /\ Len(results) >= 3
  /\ results[Len(results)] = results[Len(results) - 1]
  /\ results[Len(results)] \in {"TAPE_ERROR", "UNESCAPED_CHARS"}
  /\ results[Len(results) - 2] = "SUCCESS"

\* after a latched error, set_new_buffer and a call that delivers a document
WitnessC9Reset ==
  /\ pc = "stream"
  /\ resets = 1
  /\ error_code # "SUCCESS"
  /\ ~error_on_last_attempt
  /\ n_parsed_docs = 1 /\ status = "SUCCESS"

====
